---- MODULE Spec2Model ----
(***************************************************************************)
(* A model of the regions I/O registry (src/regions/core/registry.py) and  *)
(* of the DS9 writer (src/regions/io/ds9/write.py).                        *)
(*                                                                         *)
(* Python values are modelled as follows.  A dict is a sequence of         *)
(* <<key, value>> entries in insertion order (the registry) or a function  *)
(* whose DOMAIN is the set of keys (metadata).  A raised exception is the  *)
(* field exc of the record a call returns ("none" when the call returns    *)
(* normally).  Python's None is the string "None".                         *)
(***************************************************************************)
EXTENDS Integers, Sequences, FiniteSets, TLC

VARIABLES registry, last, fs, wlast, regions, out

vars == <<registry, last, fs, wlast, regions, out>>

(***************************************************************************)
(* Bounds of the model.                                                    *)
(***************************************************************************)
MaxReg == 2

(***************************************************************************)
(* Part 1: RegionsRegistry.                                                *)
(***************************************************************************)
Classes == {"Region", "Regions"}

Methods == {"read", "write", "parse", "serialize", "identify"}

Filetypes == {"crtf", "ds9"}

\* sorted(filetypes): the filetypes of the model in Python's string order
FiletypeOrder == <<"crtf", "ds9">>

\* the functions that plugins register: two distinct function objects
Handlers == {"fa", "fb"}

Filenames == {"a.reg", "b.crtf"}

\* registry[identifier](methodname, filename): what a registered function
\* answers when it is used as an identifier
Accepts(func, methodname, filename) ==
    \/ func = "fa" /\ filename = "a.reg"
    \/ func = "fb" /\ filename = "b.crtf"

RegKey(classobj, methodname, filetype) ==
    [classobj |-> classobj, methodname |-> methodname, filetype |-> filetype]

RegKeys(reg) == {reg[i].key : i \in DOMAIN reg}

\* key in cls.registry
HasKey(reg, key) == key \in RegKeys(reg)

\* cls.registry[key]
Lookup(reg, key) ==
    LET i == CHOOSE j \in DOMAIN reg : reg[j].key = key IN reg[i].func

NoCall ==
    [op |-> "none", classobj |-> "none", methodname |-> "none",
     format |-> "none", filename |-> "none", func |-> "none",
     resolved |-> "none", exc |-> "none", value |-> "none", table |-> <<>>]

\* get_identifiers: the 'identify' keys of classobj, in registration order
GetIdentifiers(reg, classobj) ==
    SelectSeq(reg, LAMBDA e : e.key.classobj = classobj
                              /\ e.key.methodname = "identify")

YesNo(b) == IF b THEN "Yes" ELSE "No"

\* get_formats: "" (isStr) when classobj has no format registered, else the
\* table, one row per filetype in sorted order
GetFormats(reg, classobj) ==
    LET filetypes == {k.filetype : k \in {x \in RegKeys(reg) : x.classobj = classobj}}
        sorted == SelectSeq(FiletypeOrder, LAMBDA f : f \in filetypes)
        keysOf(f) == {k.methodname : k \in {x \in RegKeys(reg) :
                          x.classobj = classobj /\ x.filetype = f}}
        row(f) == [Format |-> f,
                   Parse |-> YesNo("parse" \in keysOf(f)),
                   Serialize |-> YesNo("serialize" \in keysOf(f)),
                   Read |-> YesNo("read" \in keysOf(f)),
                   Write |-> YesNo("write" \in keysOf(f)),
                   AutoIdentify |-> YesNo("identify" \in keysOf(f))]
        rows == [i \in DOMAIN sorted |-> row(sorted[i])]
    IN  IF Len(rows) = 0
        THEN [isStr |-> TRUE, rows |-> <<>>]
        ELSE [isStr |-> FALSE, rows |-> rows]

\* _get_format_table_str: tbl.pformat(...) on what get_formats returned; a str
\* has no pformat, which raises AttributeError
GetFormatTableStr(reg, classobj) ==
    LET tbl == GetFormats(reg, classobj) IN
    IF tbl.isStr
    THEN [exc |-> "AttributeError", table |-> <<>>]
    ELSE [exc |-> "none", table |-> tbl.rows]

\* identify_format: the filetype of the first identifier that accepts, else
\* IORegistryError with the format table in its message
IdentifyFormat(reg, filename, classobj, methodname) ==
    LET identifiers == GetIdentifiers(reg, classobj)
        hits == {i \in DOMAIN identifiers :
                    Accepts(identifiers[i].func, methodname, filename)}
    IN  IF hits # {}
        THEN LET first == CHOOSE i \in hits : \A j \in hits : i <= j
             IN  [exc |-> "none", format |-> identifiers[first].key.filetype,
                  table |-> <<>>]
        ELSE LET t == GetFormatTableStr(reg, classobj) IN
             IF t.exc # "none"
             THEN [exc |-> t.exc, format |-> "None", table |-> <<>>]
             ELSE [exc |-> "IORegistryError", format |-> "None", table |-> t.table]

\* the outcome of RegionsRegistry.read(filename, classobj, format)
ReadOutcome(reg, filename, classobj, format) ==
    LET id == IF format = "None"
              THEN IdentifyFormat(reg, filename, classobj, "read")
              ELSE [exc |-> "none", format |-> format, table |-> <<>>]
        key == RegKey(classobj, "read", id.format)
    IN  IF id.exc # "none"
        THEN [exc |-> id.exc, format |-> id.format, value |-> "none",
              table |-> id.table]
        ELSE IF HasKey(reg, key)
        THEN [exc |-> "none", format |-> id.format,
              value |-> Lookup(reg, key), table |-> <<>>]
        ELSE LET t == GetFormatTableStr(reg, classobj) IN
             IF t.exc # "none"
             THEN [exc |-> t.exc, format |-> id.format, value |-> "none",
                   table |-> <<>>]
             ELSE [exc |-> "IORegistryError", format |-> id.format,
                   value |-> "none", table |-> t.table]

\* the outcome of RegionsRegistry.write(regions, filename, classobj, format):
\* the lookup cls.registry[key] is not guarded
WriteOutcome(reg, filename, classobj, format) ==
    LET id == IF format = "None"
              THEN IdentifyFormat(reg, filename, classobj, "write")
              ELSE [exc |-> "none", format |-> format, table |-> <<>>]
        key == RegKey(classobj, "write", id.format)
    IN  IF id.exc # "none"
        THEN [exc |-> id.exc, format |-> id.format, value |-> "none",
              table |-> id.table]
        ELSE IF HasKey(reg, key)
        THEN [exc |-> "none", format |-> id.format,
              value |-> Lookup(reg, key), table |-> <<>>]
        ELSE [exc |-> "KeyError", format |-> id.format, value |-> "none",
              table |-> <<>>]

\* register with a duplicate check that compares the handlers: registering
\* the stored function again passes silently
RegisterSameOnly(classobj, methodname, filetype, wrapped_func) ==
    LET key == RegKey(classobj, methodname, filetype)
        call == [NoCall EXCEPT !.op = "register", !.classobj = classobj,
                               !.methodname = methodname, !.format = filetype,
                               !.func = wrapped_func]
    IN  /\ Len(registry) < MaxReg \/ HasKey(registry, key)
        /\ IF HasKey(registry, key) /\ Lookup(registry, key) # wrapped_func
           THEN /\ registry' = registry
                /\ last' = [call EXCEPT !.exc = "ValueError"]
           ELSE /\ registry' = IF HasKey(registry, key) THEN registry
                               ELSE Append(registry, [key |-> key, func |-> wrapped_func])
                /\ last' = [call EXCEPT !.value = wrapped_func]
        /\ UNCHANGED <<fs, wlast, regions, out>>

\* register(classobj, methodname, filetype)(wrapped_func)
Register(classobj, methodname, filetype, wrapped_func) ==
    LET key == RegKey(classobj, methodname, filetype)
        call == [NoCall EXCEPT !.op = "register", !.classobj = classobj,
                               !.methodname = methodname, !.format = filetype,
                               !.func = wrapped_func]
    IN  /\ Len(registry) < MaxReg \/ HasKey(registry, key)
        /\ IF HasKey(registry, key)
           THEN /\ registry' = registry
                /\ last' = [call EXCEPT !.exc = "ValueError"]
           ELSE /\ registry' = Append(registry, [key |-> key, func |-> wrapped_func])
                /\ last' = [call EXCEPT !.value = wrapped_func]
        /\ UNCHANGED <<fs, wlast, regions, out>>

\* a call of identify_format; last records its outcome
CallIdentifyFormat(filename, classobj, methodname) ==
    LET r == IdentifyFormat(registry, filename, classobj, methodname) IN
    /\ last' = [NoCall EXCEPT !.op = "identify_format", !.classobj = classobj,
                              !.methodname = methodname, !.filename = filename,
                              !.exc = r.exc, !.value = r.format,
                              !.table = r.table]
    /\ UNCHANGED <<registry, fs, wlast, regions, out>>

\* a call of read; value is the handler that is invoked
CallRead(filename, classobj, format) ==
    LET r == ReadOutcome(registry, filename, classobj, format) IN
    /\ last' = [NoCall EXCEPT !.op = "read", !.classobj = classobj,
                              !.methodname = "read", !.filename = filename,
                              !.format = format, !.resolved = r.format,
                              !.exc = r.exc, !.value = r.value,
                              !.table = r.table]
    /\ UNCHANGED <<registry, fs, wlast, regions, out>>

\* a call of write; value is the handler that is invoked
CallWrite(filename, classobj, format) ==
    LET r == WriteOutcome(registry, filename, classobj, format) IN
    /\ last' = [NoCall EXCEPT !.op = "write", !.classobj = classobj,
                              !.methodname = "write", !.filename = filename,
                              !.format = format, !.resolved = r.format,
                              !.exc = r.exc, !.value = r.value,
                              !.table = r.table]
    /\ UNCHANGED <<registry, fs, wlast, regions, out>>

InitRegistry ==
    /\ registry = <<>>
    /\ last = NoCall
    /\ fs = <<>>
    /\ wlast = <<>>
    /\ regions = <<>>
    /\ out = <<>>

NextRegistry ==
    \/ \E c \in Classes, m \in Methods, f \in Filetypes, h \in Handlers :
          Register(c, m, f, h)
    \/ \E fn \in Filenames, c \in Classes, m \in {"read", "write"} :
          CallIdentifyFormat(fn, c, m)
    \/ \E fn \in Filenames, c \in Classes, f \in Filetypes \cup {"None"} :
          CallRead(fn, c, f)
    \/ \E fn \in Filenames, c \in Classes, f \in Filetypes \cup {"None"} :
          CallWrite(fn, c, f)

SpecRegistry == InitRegistry /\ [][NextRegistry]_vars

\* plugin load time: registrations only
NextRegister ==
    \E c \in Classes, m \in Methods, f \in Filetypes, h \in Handlers :
        Register(c, m, f, h)

SpecRegister == InitRegistry /\ [][NextRegister]_vars

LastKey == RegKey(last.classobj, last.methodname, last.format)

\* C1: a register call on a key that is already registered raises the
\* duplicate-registration error (ValueError) and leaves the registry as it was,
\* whatever handler is passed; on an absent key it appends the entry
\* key -> handler and returns the handler it was given.
C1_RegisterDuplicate ==
    [][last'.op = "register" =>
        LET key == RegKey(last'.classobj, last'.methodname, last'.format) IN
        IF HasKey(registry, key)
        THEN /\ last'.exc = "ValueError"
             /\ registry' = registry
        ELSE /\ last'.exc = "none"
             /\ last'.value = last'.func
             /\ registry' = Append(registry, [key |-> key, func |-> last'.func])
             /\ \A i, j \in DOMAIN registry' :
                   registry'[i].key = registry'[j].key => i = j]_vars

\* C1 witness: a duplicate registration with a handler other than the stored
\* one was refused, after an earlier registration of another key
C1_Witness ==
    /\ last.op = "register"
    /\ last.exc = "ValueError"
    /\ HasKey(registry, LastKey)
    /\ Lookup(registry, LastKey) # last.func
    /\ Len(registry) >= 2

\* C2: for a target type with no 'identify' handler registered,
\* identify_format, and read and write called without a format, raise
\* IORegistryError carrying the capability table of the target type, and no
\* other exception.
C2_NoIdentifierRaisesIORegistryError ==
    (/\ \/ last.op = "identify_format"
        \/ last.op \in {"read", "write"} /\ last.format = "None"
     /\ Len(GetIdentifiers(registry, last.classobj)) = 0)
    => /\ last.exc = "IORegistryError"
       /\ last.table = GetFormats(registry, last.classobj).rows

\* C3: read and write raise IORegistryError carrying the capability table
\* when the given or identified format has no handler under
\* (classobj, operation, format), and invoke no handler.
C3_MissingHandlerRaisesIORegistryError ==
    (/\ last.op \in {"read", "write"}
     /\ last.resolved # "None"
     /\ ~HasKey(registry, RegKey(last.classobj, last.op, last.resolved)))
    => /\ last.exc = "IORegistryError"
       /\ last.table = GetFormats(registry, last.classobj).rows
       /\ last.value = "none"

(***************************************************************************)
(* Part 2: _write_ds9, the 'write' handler of the ds9 format.              *)
(*                                                                         *)
(* fs maps each path to a file: whether it exists and, when it does, the   *)
(* sequence of texts written to it since it was last created or truncated. *)
(* wlast records the last call and the trace of its effects, in order.     *)
(***************************************************************************)
Paths == {"p1", "p2"}

\* the region lists handed to the writer
WriteInputs == {"regionsA", "regionsB", "regionsBad"}

Absent == [exists |-> FALSE, data |-> <<>>]

File(data) == [exists |-> TRUE, data |-> data]

\* shapelist.to_ds9(fmt, radunit): the text of a region list, or the error
\* its conversion raises
ToDs9(regs) ==
    CASE regs = "regionsA" -> [exc |-> "none", text |-> "textA"]
      [] regs = "regionsB" -> [exc |-> "none", text |-> "textB"]
      [] OTHER -> [exc |-> "ValueError", text |-> "none"]

\* _serialize_ds9(regions, fmt, radunit)
SerializeDs9(regs) == ToDs9(regs)

\* os.path.lexists(filename)
Lexists(files, filename) == files[filename].exists

\* open(filename, 'a') followed by fh.write(output)
OpenAWrite(files, filename, output) ==
    [files EXCEPT ![filename] = File(files[filename].data \o <<output>>)]

\* open(filename, 'w') followed by fh.write(output): the file is created or
\* truncated, then holds the output
OpenWWrite(files, filename, output) ==
    [files EXCEPT ![filename] = File(<<output>>)]

NoWrite ==
    [op |-> "none", regs |-> "none", filename |-> "none", overwrite |-> FALSE,
     exc |-> "none", trace |-> <<>>]

\* _write_ds9(regions, filename, overwrite=...)
WriteDs9(regs, filename, overwrite) ==
    LET call == [NoWrite EXCEPT !.op = "write_ds9", !.regs = regs,
                                !.filename = filename, !.overwrite = overwrite]
        output == SerializeDs9(regs)
    IN  /\ IF Lexists(fs, filename) /\ ~overwrite
           THEN /\ wlast' = [call EXCEPT !.exc = "OSError", !.trace = <<"lexists">>]
                /\ fs' = fs
           ELSE IF output.exc # "none"
           THEN /\ wlast' = [call EXCEPT !.exc = output.exc,
                                         !.trace = <<"lexists", "serialize">>]
                /\ fs' = fs
           ELSE /\ wlast' = [call EXCEPT !.trace =
                                <<"lexists", "serialize", "open", "write">>]
                /\ fs' = OpenWWrite(fs, filename, output.text)
        /\ UNCHANGED <<registry, last, regions, out>>

\* the destinations before the first call: absent, empty, or with content
InitWrite ==
    /\ fs \in [Paths -> {Absent, File(<<>>), File(<<"old">>)}]
    /\ wlast = NoWrite
    /\ registry = <<>>
    /\ last = NoCall
    /\ regions = <<>>
    /\ out = <<>>

NextWrite ==
    \E regs \in WriteInputs, fn \in Paths, ow \in BOOLEAN :
        WriteDs9(regs, fn, ow)

SpecWrite == InitWrite /\ [][NextWrite]_vars

InTrace(trace, what) == \E i \in DOMAIN trace : trace[i] = what

\* C4: a call of the ds9 write handler on an existing destination with
\* overwrite false raises before serializing and before opening or writing,
\* and leaves every file as it was; otherwise, when serialization succeeds,
\* the destination afterwards holds exactly the serialized text and the other
\* files are as they were; when serialization fails the destination is not
\* opened and every file is as it was.
C4_WriteProtection ==
    [][wlast'.op = "write_ds9" =>
        LET fn == wlast'.filename
            ser == SerializeDs9(wlast'.regs)
        IN  IF fs[fn].exists /\ ~wlast'.overwrite
            THEN /\ wlast'.exc = "OSError"
                 /\ ~InTrace(wlast'.trace, "serialize")
                 /\ ~InTrace(wlast'.trace, "open")
                 /\ ~InTrace(wlast'.trace, "write")
                 /\ fs' = fs
            ELSE IF ser.exc = "none"
            THEN /\ wlast'.exc = "none"
                 /\ fs'[fn] = File(<<ser.text>>)
                 /\ \A p \in Paths \ {fn} : fs'[p] = fs[p]
            ELSE /\ wlast'.exc = ser.exc
                 /\ ~InTrace(wlast'.trace, "open")
                 /\ fs' = fs]_vars

\* C4 witness: a call with overwrite true replaced the earlier content of an
\* existing destination, while the other destination kept a text written by
\* an earlier call
C4_Witness ==
    /\ wlast.op = "write_ds9"
    /\ wlast.overwrite
    /\ wlast.exc = "none"
    /\ fs[wlast.filename] = File(<<"textB">>)
    /\ \E p \in Paths \ {wlast.filename} : fs[p] = File(<<"textA">>)

(***************************************************************************)
(* Part 3: the DS9 shape encoder (_serialize_region_ds9).                  *)
(*                                                                         *)
(* A region is a record: cls is its class name, split into base and        *)
(* suffix ("CirclePixelRegion" is base "circle", suffix "PixelRegion");    *)
(* params is region._params in order; frame is the frame name of its sky   *)
(* coordinates; meta and visual are dicts.  A text is a sequence of        *)
(* tokens: [t |-> "sep"] is a literal comma, [t |-> "val"] a rendered      *)
(* number, v naming the attribute it renders and fmt how it is rendered.   *)
(***************************************************************************)
Sep == [t |-> "sep", v |-> ",", i |-> 0, fmt |-> "lit"]

\* the i-th number of attribute v, rendered as fmt
Val(v, i, fmt) == [t |-> "val", v |-> v, i |-> i, fmt |-> fmt]

\* a placeholder {name} of a template
Ph(name) == [t |-> "ph", v |-> name, i |-> 0, fmt |-> "lit"]

RECURSIVE FlattenFrom(_, _)
FlattenFrom(seqs, i) ==
    IF i > Len(seqs) THEN <<>> ELSE seqs[i] \o FlattenFrom(seqs, i + 1)

\* the concatenation of a sequence of texts
Flatten(seqs) == FlattenFrom(seqs, 1)

\* frame_mapping: from astropy frames to ds9 frames
FrameMapping ==
    [f \in {"image", "icrs", "fk5", "fk4", "galactic", "geocentrictrueecliptic"} |->
        IF f = "geocentrictrueecliptic" THEN "ecliptic" ELSE f]

TemplateShapes ==
    {"circle", "ellipse", "rectangle", "circleannulus", "ellipseannulus",
     "rectangleannulus", "polygon", "line", "point", "text"}

\* shape_templates[shape][0]
ShapeName(shape) ==
    CASE shape = "rectangle" -> "box"
      [] shape = "circleannulus" -> "annulus"
      [] shape = "ellipseannulus" -> "ellipse"
      [] shape = "rectangleannulus" -> "box"
      [] OTHER -> shape

\* shape_templates[shape][1]
ShapeTemplate(shape) ==
    CASE shape = "circle" -> <<Ph("radius")>>
      [] shape = "ellipse" ->
            <<Ph("width"), Sep, Ph("height"), Sep, Ph("angle")>>
      [] shape = "rectangle" ->
            <<Ph("width"), Sep, Ph("height"), Ph("angle")>>
      [] shape = "circleannulus" ->
            <<Ph("inner_radius"), Sep, Ph("outer_radius")>>
      [] shape \in {"ellipseannulus", "rectangleannulus"} ->
            <<Ph("inner_width"), Sep, Ph("inner_height"), Sep,
              Ph("outer_width"), Sep, Ph("outer_height"), Sep, Ph("angle")>>
      [] shape = "polygon" -> <<Ph("vertices")>>
      [] shape = "line" -> <<Ph("start"), Sep, Ph("end")>>
      [] OTHER -> <<>>

\* isinstance(region, PixelRegion)
IsPixelRegion(region) == region.cls.suffix = "PixelRegion"

InSeq(seq, x) == \E i \in DOMAIN seq : seq[i] = x

\* _get_frame_name: the ds9 frame of the region; an unmapped frame is warned
\* about, after which mapping[frame] raises KeyError
GetFrameName(region) ==
    LET found == IsPixelRegion(region) \/ InSeq(region.params, "center")
                 \/ InSeq(region.params, "vertices")
                 \/ InSeq(region.params, "start")
        frame == IF IsPixelRegion(region) THEN "image" ELSE region.frame
    IN  IF ~found
        THEN [exc |-> "ValueError", warnings |-> <<>>, frame |-> "none"]
        ELSE IF frame \notin DOMAIN FrameMapping
        THEN [exc |-> "KeyError", warnings |-> <<"frame">>, frame |-> "none"]
        ELSE [exc |-> "none", warnings |-> <<>>, frame |-> FrameMapping[frame]]

\* region.__class__.__name__.lower() with 'skyregion' and 'pixelregion'
\* removed and 'regularpolygon' replaced by 'polygon'
CanonicalShape(cls) ==
    IF cls.base = "regularpolygon" THEN "polygon" ELSE cls.base

\* _get_region_shape: an unmapped shape is warned about, after which
\* mapping[shape] raises KeyError
GetRegionShape(region) ==
    LET shape == CanonicalShape(region.cls) IN
    IF shape \notin TemplateShapes
    THEN [exc |-> "KeyError", warnings |-> <<"shape">>, shape |-> shape,
          name |-> "none"]
    ELSE [exc |-> "none", warnings |-> <<>>, shape |-> shape,
          name |-> ShapeName(shape)]

\* a coordinate as 'a b' with the blank replaced by a comma
CoordText(v, fmt) == <<Val(v, 1, fmt), Sep, Val(v, 2, fmt)>>

\* _get_region_center
GetRegionCenter(region) ==
    IF ~InSeq(region.params, "center") THEN <<>>
    ELSE IF IsPixelRegion(region) THEN CoordText("center", "plus1")
    ELSE CoordText("center", "deg")

\* the number of vertices of the polygons of the model
NumVertices == 3

\* the rendered value of one attribute in _get_shape_params, by the type of
\* the attribute
RenderParam(region, name) ==
    LET type == region.types[name] IN
    CASE type = "Angle" -> <<Val(name, 1, "angle")>>
      [] type = "Quantity" -> <<Val(name, 1, "quantity")>>
      [] type = "SkyCoord" -> CoordText(name, "deg")
      [] type = "SkyCoordSeq" ->
            Flatten([i \in 1..(2 * NumVertices - 1) |->
                IF i % 2 = 1
                THEN <<Val(name, i, "deg"), Sep, Val(name, i + 1, "deg")>>
                ELSE <<Sep>>])
      [] OTHER -> <<Val(name, 1, "fixed")>>

\* _get_shape_params: template.format(**param) over the rendered attributes
\* other than center and text; a placeholder without a value is a ValueError
GetShapeParams(region, template) ==
    LET names == {region.params[i] : i \in DOMAIN region.params} \ {"center", "text"}
        missing == \E i \in DOMAIN template :
                      template[i].t = "ph" /\ template[i].v \notin names
    IN  IF missing
        THEN [exc |-> "ValueError", text |-> <<>>]
        ELSE [exc |-> "none",
              text |-> Flatten([i \in DOMAIN template |->
                          IF template[i].t = "ph"
                          THEN RenderParam(region, template[i].v)
                          ELSE <<template[i]>>])]

\* shape_str: the ds9 shape name and the text between its parentheses
ShapeStr(region_type, region_center, shape_params) ==
    [name |-> region_type,
     inner |-> region_center \o
               (IF Len(shape_params) > 0 THEN <<Sep>> \o shape_params ELSE <<>>)]

(***************************************************************************)
(* Part 4: metadata translation.  A dict of metadata is a function from    *)
(* its keys to values; every value is a sequence of words (a number or a   *)
(* string is a sequence of one word, a list a sequence of its items).      *)
(***************************************************************************)
EmptyDict == [k \in {} |-> <<>>]

Has(d, k) == k \in DOMAIN d

\* d.get(k, default)
Get(d, k, default) == IF Has(d, k) THEN d[k] ELSE default

\* d without key k, as after d.pop(k, ...)
Pop(d, k) == [x \in DOMAIN d \ {k} |-> d[x]]

\* d after d[k] = v
Put(d, k, v) == [x \in DOMAIN d \cup {k} |-> IF x = k THEN v ELSE d[x]]

\* d after d[to] = d.pop(from), when from is a key of d
Rename(d, from, to) == IF Has(d, from) THEN Put(Pop(d, from), to, d[from]) ELSE d

\* {**a, **b}
Merge(a, b) == b @@ a

\* the dash rule of _translate_to_mpl_meta: dash and dashlist are popped, and
\* a dash of 1 becomes linestyle 'dashed' with the dashlist as dashes
DashToMpl(visual) ==
    LET popped == Pop(Pop(visual, "dash"), "dashlist") IN
    IF Get(visual, "dash", <<"0">>) # <<"1">> THEN popped
    ELSE IF Has(visual, "dashlist")
    THEN Put(Put(popped, "linestyle", <<"dashed">>), "dashes", visual["dashlist"])
    ELSE Put(popped, "linestyle", <<"dashed">>)

\* _translate_to_mpl_meta, on region.visual
TranslateToMplMeta(visual) ==
    Rename(Rename(Rename(DashToMpl(visual), "font", "fontname"),
                  "symbol", "marker"),
           "symsize", "markersize")

\* valid_symbols_ds9 inverted: from matplotlib markers to ds9 point symbols
SymbolMap == [m \in {"o", "s", "x"} |->
                 CASE m = "o" -> "circle" [] m = "s" -> "box" [] OTHER -> "x"]

\* the include rule of _translate_ds9_meta
IncludeRule(m) ==
    Put(m, "include",
        IF ~Has(m, "include") THEN <<"1">>
        ELSE IF m["include"] = <<"True">> THEN <<"1">> ELSE <<"0">>)

\* the text rule of _translate_ds9_meta
TextRule(m) ==
    IF Has(m, "text") THEN Put(m, "text", <<"{">> \o m["text"] \o <<"}">>) ELSE m

\* the font descriptor that _translate_ds9_meta composes
FontValue(fontname, fontsize, fontweight, fontstyle) ==
    <<"dquote">> \o fontname \o fontsize \o fontweight
    \o (IF fontstyle = <<"normal">> THEN <<"roman">> ELSE fontstyle)
    \o <<"dquote">>

\* the font rule of _translate_ds9_meta: fontname is popped, then size and
\* weight are popped under the key 'fontname' again, which is gone, so that
\* both take their defaults; fontsize and fontweight stay in the dict
FontRule(m) ==
    IF ~Has(m, "fontname") THEN m
    ELSE Put(Pop(Pop(m, "fontname"), "fontstyle"), "font",
             FontValue(m["fontname"],
                       Get(Pop(m, "fontname"), "fontname", <<"10">>),
                       Get(Pop(m, "fontname"), "fontname", <<"normal">>),
                       Get(Pop(m, "fontname"), "fontstyle", <<"roman">>)))

\* the dash rule of _translate_ds9_meta
DashRule(m) ==
    LET popped == Pop(m, "linestyle") IN
    IF ~(Has(m, "linestyle") /\ m["linestyle"] \in {<<"dashed">>, <<"--">>})
    THEN popped
    ELSE IF Has(m, "dashes")
    THEN Put(Pop(Put(popped, "dash", <<"1">>), "dashes"), "dashlist",
             SubSeq(m["dashes"], 1, 2))
    ELSE Put(popped, "dash", <<"1">>)

\* the marker rule of _translate_ds9_meta: a marker outside the symbol table
\* is a KeyError
MarkerRule(m) ==
    IF ~Has(m, "marker")
    THEN [exc |-> "none", meta |-> m]
    ELSE IF m["marker"][1] \notin DOMAIN SymbolMap
    THEN [exc |-> "KeyError", meta |-> EmptyDict]
    ELSE [exc |-> "none",
          meta |-> Put(Pop(Pop(m, "marker"), "markersize"), "point",
                       <<SymbolMap[m["marker"][1]]>>
                       \o Get(m, "markersize", <<"11">>))]

\* _translate_ds9_meta: [exc, meta]
TranslateDs9Meta(meta) ==
    MarkerRule(DashRule(FontRule(
        Rename(Rename(TextRule(IncludeRule(meta)), "linewidth", "width"),
               "markeredgewidth", "width"))))

\* meta_keys + visual_keys, in the order of the two lists
ValidKeys ==
    <<"text", "select", "highlite", "fixed", "edit", "move", "rotate",
      "delete", "include", "tag", "color", "textangle", "textrotate", "dash",
      "dashlist", "width", "font", "fill", "point">>

\* _remove_invalid_keys
RemoveInvalidKeys(region_meta) ==
    [k \in {x \in DOMAIN region_meta : InSeq(ValidKeys, x)} |-> region_meta[k]]

NoShape == [name |-> "none", inner |-> <<>>]

FailedRegion(exc, warnings) ==
    [exc |-> exc, warnings |-> warnings, frame |-> "none", shape |-> NoShape,
     meta |-> EmptyDict]

\* the statements of _serialize_region_ds9 in order, each of which may raise
RegionData(region, frame, shape, shape_params, meta) ==
    IF frame.exc # "none" THEN FailedRegion(frame.exc, frame.warnings)
    ELSE IF shape.exc # "none" THEN FailedRegion(shape.exc, shape.warnings)
    ELSE IF shape_params.exc # "none" THEN FailedRegion(shape_params.exc, <<>>)
    ELSE IF meta.exc # "none" THEN FailedRegion(meta.exc, <<>>)
    ELSE [exc |-> "none", warnings |-> <<>>, frame |-> frame.frame,
          shape |-> ShapeStr(shape.name, GetRegionCenter(region),
                             shape_params.text),
          meta |-> RemoveInvalidKeys(meta.meta)]

\* _serialize_region_ds9: [exc, warnings, frame, shape, meta]
SerializeRegionDs9(region) ==
    RegionData(region,
               GetFrameName(region),
               GetRegionShape(region),
               GetShapeParams(region,
                              ShapeTemplate(CanonicalShape(region.cls))),
               TranslateDs9Meta(Merge(region.meta,
                                      TranslateToMplMeta(region.visual))))

(***************************************************************************)
(* Part 5: document assembly (_new_serialize_ds9).  The text is a sequence *)
(* of newline-terminated lines.  A metadata string is the sequence of its  *)
(* key=value tokens; the keys of a dict are visited in the order of        *)
(* ValidKeys (the code visits them in insertion order).                    *)
(***************************************************************************)
Tok(key, val) == [key |-> key, val |-> val]

\* the position of 'tag' among the valid keys
TagPos == CHOOSE i \in DOMAIN ValidKeys : ValidKeys[i] = "tag"

\* the key=value tokens of the keys of meta among keys, in the order of keys
KeyTokens(meta, keys) ==
    LET present == SelectSeq(keys, LAMBDA k : Has(meta, k))
    IN  [i \in DOMAIN present |-> Tok(present[i], meta[present[i]])]

\* _make_meta_str: one token per key, and for 'tag' one token per value
MakeMetaStr(meta) ==
    KeyTokens(meta, SubSeq(ValidKeys, 1, TagPos - 1))
    \o (IF Has(meta, "tag")
        THEN [j \in DOMAIN meta["tag"] |-> Tok("tag", <<meta["tag"][j]>>)]
        ELSE <<>>)
    \o KeyTokens(meta, SubSeq(ValidKeys, TagPos + 1, Len(ValidKeys)))

\* dict(set.intersection(*[set(d.items()) for d in metalist])), for a
\* non-empty list
GlobalMeta(metalist) ==
    LET keys == {k \in DOMAIN metalist[1] :
                    \A i \in DOMAIN metalist :
                        Has(metalist[i], k) /\ metalist[i][k] = metalist[1][k]}
    IN  [k \in keys |-> metalist[1][k]]

HeaderLine ==
    [kind |-> "header", frame |-> "none", shape |-> NoShape, meta |-> <<>>]

GlobalLine(global_meta) ==
    [kind |-> "global", frame |-> "none", shape |-> NoShape,
     meta |-> MakeMetaStr(global_meta)]

RegionLine(data, meta) ==
    [kind |-> "region", frame |-> data.frame, shape |-> data.shape,
     meta |-> MakeMetaStr(meta)]

\* the warnings emitted while regions 1..n are serialized
RECURSIVE WarningsUpTo(_, _)
WarningsUpTo(results, n) ==
    IF n = 0 THEN <<>>
    ELSE WarningsUpTo(results, n - 1) \o results[n].warnings

\* for region in regions: region_data.append(_serialize_region_ds9(region))
SerializeAll(regs) == [i \in DOMAIN regs |-> SerializeRegionDs9(regs[i])]

\* tmp = rd['meta']; tmp.pop('tag', None): tmp is the dict of region_data
\* itself, so the pop takes 'tag' out of region_data
PopTags(region_data) ==
    [i \in DOMAIN region_data |-> [region_data[i] EXCEPT !.meta = Pop(@, "tag")]]

\* for key in global_meta.keys(): tmp.pop(key)
PopGlobal(region_data, global_meta) ==
    [i \in DOMAIN region_data |->
        [k \in DOMAIN region_data[i].meta \ DOMAIN global_meta |->
            region_data[i].meta[k]]]

\* the lines of the document
Document(region_data, global_meta, metalist) ==
    (IF DOMAIN global_meta # {}
     THEN <<HeaderLine, GlobalLine(global_meta)>>
     ELSE <<HeaderLine>>)
    \o [i \in DOMAIN region_data |-> RegionLine(region_data[i], metalist[i])]

\* _new_serialize_ds9 after its first loop, on the popped region_data
Factor(region_data, global_meta) ==
    Document(region_data, global_meta, PopGlobal(region_data, global_meta))

\* _new_serialize_ds9 on the results of its first loop: [exc, warnings, text]
Assemble(results) ==
    LET failed == {i \in DOMAIN results : results[i].exc # "none"} IN
    IF failed # {}
    THEN [exc |-> results[CHOOSE i \in failed : \A j \in failed : i <= j].exc,
          warnings |-> WarningsUpTo(results,
                          CHOOSE i \in failed : \A j \in failed : i <= j),
          text |-> <<>>]
    ELSE IF Len(results) = 0
    THEN \* set.intersection() without an argument
         [exc |-> "TypeError", warnings |-> <<>>, text |-> <<>>]
    ELSE [exc |-> "none", warnings |-> <<>>,
          text |-> Factor(PopTags(results),
                          GlobalMeta([i \in DOMAIN results |->
                                         PopTags(results)[i].meta]))]

\* _new_serialize_ds9: [exc, warnings, text]
NewSerializeDs9(regs) == Assemble(SerializeAll(regs))

(***************************************************************************)
(* The regions given to the encoder.                                       *)
(***************************************************************************)
\* region._params of the region classes
RegionParams(base) ==
    CASE base = "circle" -> <<"center", "radius">>
      [] base \in {"ellipse", "rectangle"} ->
            <<"center", "width", "height", "angle">>
      [] base = "circleannulus" -> <<"center", "inner_radius", "outer_radius">>
      [] base \in {"ellipseannulus", "rectangleannulus"} ->
            <<"center", "inner_width", "outer_width", "inner_height",
              "outer_height", "angle">>
      [] base = "polygon" -> <<"vertices">>
      [] base = "regularpolygon" -> <<"center", "nvertices", "radius", "angle">>
      [] base = "line" -> <<"start", "end">>
      [] base = "point" -> <<"center">>
      [] base = "text" -> <<"center", "text">>
      [] OTHER -> <<"region1", "region2", "operator">>

\* the type of the value of an attribute of a region
ParamType(suffix, name) ==
    CASE name = "angle" -> "Angle"
      [] name \in {"vertices", "start", "end", "center"} /\ suffix = "PixelRegion" ->
            "PixCoord"
      [] name = "vertices" -> "SkyCoordSeq"
      [] name \in {"start", "end", "center"} -> "SkyCoord"
      [] name \in {"nvertices", "text", "operator", "region1", "region2"} -> "other"
      [] OTHER -> IF suffix = "SkyRegion" THEN "Quantity" ELSE "float"

MkRegion(base, suffix, frame, meta, visual) ==
    [cls |-> [base |-> base, suffix |-> suffix],
     params |-> RegionParams(base),
     types |-> [n \in {RegionParams(base)[i] : i \in DOMAIN RegionParams(base)} |->
                   ParamType(suffix, n)],
     frame |-> frame, meta |-> meta, visual |-> visual]

Bases == TemplateShapes \cup {"regularpolygon", "compound"}

\* frame names of sky coordinates; the last has no ds9 counterpart
SkyFrames == {"icrs", "fk5", "galactic", "geocentrictrueecliptic", "fk4noeterms"}

\* one region of every class, bare of metadata; the pixel polygon and line
\* are left out (their vertices are no SkyCoord, and how they format is
\* decided outside these files)
ShapeInputs ==
    {MkRegion(b, "PixelRegion", "none", EmptyDict, EmptyDict) :
        b \in Bases \ {"polygon", "line"}}
    \cup {MkRegion(b, "SkyRegion", f, EmptyDict, EmptyDict) :
            b \in Bases, f \in SkyFrames}

Opt(key, values) == {EmptyDict} \cup {key :> v : v \in values}

FontVisuals ==
    {a @@ b @@ c @@ d :
        a \in {"fontname" :> <<"helvetica">>, "font" :> <<"times">>},
        b \in Opt("fontsize", {<<"12">>}),
        c \in Opt("fontweight", {<<"bold">>}),
        d \in Opt("fontstyle", {<<"italic">>, <<"normal">>})}

OtherVisuals ==
    {EmptyDict,
     "color" :> <<"red">>,
     "linewidth" :> <<"2">>,
     "markeredgewidth" :> <<"3">> @@ "linewidth" :> <<"2">>,
     "dash" :> <<"1">> @@ "dashlist" :> <<"8", "3">>,
     "dash" :> <<"0">> @@ "dashlist" :> <<"8", "3">>,
     "linestyle" :> <<"--">>,
     "symbol" :> <<"o">> @@ "symsize" :> <<"5">>,
     "symbol" :> <<"s">>,
     "symbol" :> <<"?">>}

Metas ==
    {a @@ b @@ c @@ d :
        a \in Opt("include", {<<"True">>, <<"False">>}),
        b \in Opt("text", {<<"label">>}),
        c \in Opt("tag", {<<"t1">>, <<"t1", "t2">>}),
        d \in Opt("comment", {<<"note">>})}

\* a pixel circle with every combination of metadata and visual attributes
MetaInputs ==
    {MkRegion("circle", "PixelRegion", "none", m, v) :
        m \in Metas, v \in FontVisuals \cup OtherVisuals}

NoOut ==
    [done |-> FALSE, exc |-> "none", warnings |-> <<>>, frame |-> "none",
     shape |-> NoShape, meta |-> EmptyDict, text |-> <<>>]

\* a caller encodes the one region it holds
SerializeRegion ==
    LET r == SerializeRegionDs9(regions[1]) IN
    /\ ~out.done
    /\ out' = [NoOut EXCEPT !.done = TRUE, !.exc = r.exc,
                            !.warnings = r.warnings, !.frame = r.frame,
                            !.shape = r.shape, !.meta = r.meta]
    /\ UNCHANGED <<registry, last, fs, wlast, regions>>

InitRegion ==
    /\ regions \in {<<r>> : r \in ShapeInputs \cup MetaInputs}
    /\ out = NoOut
    /\ registry = <<>>
    /\ last = NoCall
    /\ fs = <<>>
    /\ wlast = <<>>

NextRegion == SerializeRegion

SpecRegion == InitRegion /\ [][NextRegion]_vars

(***************************************************************************)
(* The collections given to the document assembler.                        *)
(***************************************************************************)
MaxRegions == 2

DocMetas ==
    {EmptyDict,
     "tag" :> <<"t1">>,
     "tag" :> <<"t1", "t2">> @@ "text" :> <<"label">>,
     "include" :> <<"False">>}

DocVisuals ==
    {EmptyDict,
     "color" :> <<"red">>,
     "color" :> <<"blue">>,
     "color" :> <<"red">> @@ "linewidth" :> <<"2">>}

DocRegions ==
    {MkRegion(c[1], c[2], c[3], m, v) :
        c \in {<<"circle", "PixelRegion", "none">>,
               <<"point", "SkyRegion", "icrs">>,
               <<"circle", "SkyRegion", "fk4noeterms">>,
               <<"compound", "PixelRegion", "none">>},
        m \in DocMetas, v \in DocVisuals}

\* the caller appends a region to its list
AddRegion(r) ==
    /\ Len(regions) < MaxRegions
    /\ regions' = Append(regions, r)
    /\ out' = NoOut
    /\ UNCHANGED <<registry, last, fs, wlast>>

\* the caller serializes its list
Serialize ==
    LET r == NewSerializeDs9(regions) IN
    /\ out' = [NoOut EXCEPT !.done = TRUE, !.exc = r.exc,
                            !.warnings = r.warnings, !.text = r.text]
    /\ UNCHANGED <<registry, last, fs, wlast, regions>>

InitDs9 ==
    /\ regions = <<>>
    /\ out = NoOut
    /\ registry = <<>>
    /\ last = NoCall
    /\ fs = <<>>
    /\ wlast = <<>>

NextDs9 ==
    \/ \E r \in DocRegions : AddRegion(r)
    \/ Serialize

SpecDs9 == InitDs9 /\ [][NextDs9]_vars

(***************************************************************************)
(* Properties of the shape encoder and of the metadata translation,        *)
(* checked under SpecRegion.                                               *)
(***************************************************************************)
\* the metadata handed to _translate_ds9_meta for the region held
MergedMeta == Merge(regions[1].meta, TranslateToMplMeta(regions[1].visual))

FontSourceKeys == {"fontname", "fontsize", "fontweight", "fontstyle"}

\* C9: when a font family is present, the emitted font is the quoted
\* descriptor of the family and of the size, weight and style given in the
\* metadata (style 'normal' spelled 'roman'), with 10, normal and roman for
\* the ones not given, and no font source key is emitted.
C9_FontUsesSuppliedFields ==
    (out.done /\ out.exc = "none" /\ Has(MergedMeta, "fontname"))
    => /\ Has(out.meta, "font")
       /\ out.meta["font"] =
             FontValue(MergedMeta["fontname"],
                       Get(MergedMeta, "fontsize", <<"10">>),
                       Get(MergedMeta, "fontweight", <<"normal">>),
                       Get(MergedMeta, "fontstyle", <<"roman">>))
       /\ DOMAIN out.meta \cap FontSourceKeys = {}

\* a text that is a comma-separated list: values at the odd positions,
\* commas at the even ones, a value first and last
IsCommaList(text) ==
    /\ Len(text) % 2 = 1
    /\ \A i \in DOMAIN text :
          text[i].t = (IF i % 2 = 1 THEN "val" ELSE "sep")

Values(text) == SelectSeq(text, LAMBDA tok : tok.t = "val")

\* the values of the template parameters of the region held, in template
\* order
TemplateValues ==
    LET template == ShapeTemplate(CanonicalShape(regions[1].cls))
        phs == SelectSeq(template, LAMBDA tok : tok.t = "ph")
    IN  Flatten([i \in DOMAIN phs |-> Values(RenderParam(regions[1], phs[i].v))])

\* C10: for a region of a shape of the template table that supplies every
\* placeholder, the text between the parentheses of the shape clause is the
\* comma-separated list of the values of the center (when the shape has one)
\* followed by those of the template parameters in template order.
C10_ShapeClauseIsCommaList ==
    (/\ out.done
     /\ out.exc = "none"
     /\ CanonicalShape(regions[1].cls) \in TemplateShapes)
    => /\ IsCommaList(out.shape.inner)
       /\ Values(out.shape.inner) =
             Values(GetRegionCenter(regions[1])) \o TemplateValues

(***************************************************************************)
(* Properties of the document, checked under SpecDs9.                      *)
(***************************************************************************)
\* the translated, whitelisted metadata of the i-th region of the list
Translated(i) == SerializeRegionDs9(regions[i]).meta

Lines(kind) == SelectSeq(out.text, LAMBDA line : line.kind = kind)

TokenKeys(toks) == {toks[j].key : j \in DOMAIN toks}

\* the values of the tag tokens of a line, in order
TagValues(toks) ==
    LET tags == SelectSeq(toks, LAMBDA tok : tok.key = "tag")
    IN  [j \in DOMAIN tags |-> tags[j].val[1]]

\* the metadata that the tokens of a line stand for
DictOfTokens(toks) ==
    [k \in TokenKeys(toks) |->
        IF k = "tag" THEN TagValues(toks)
        ELSE toks[CHOOSE j \in DOMAIN toks : toks[j].key = k].val]

\* the metadata of the global line ({} without one)
GlobalDict ==
    IF Len(Lines("global")) = 0 THEN EmptyDict
    ELSE DictOfTokens(Lines("global")[1].meta)

\* a region whose frame or shape has no ds9 counterpart
Unmapped(region) ==
    \/ GetFrameName(region).exc = "KeyError"
    \/ GetRegionShape(region).exc = "KeyError"

\* C5: serializing a list that holds regions whose frame or shape has no
\* ds9 counterpart raises nothing, emits one line for each of the other
\* regions, and warns at least once for each region left out.
C5_SkipAccounting ==
    LET skipped == Cardinality({i \in DOMAIN regions : Unmapped(regions[i])}) IN
    (out.done /\ skipped > 0)
    => /\ out.exc = "none"
       /\ Len(Lines("region")) = Len(regions) - skipped
       /\ Len(out.warnings) >= skipped

\* C6: in the document of a non-empty list, every pair (k, v) that the
\* translated metadata of all regions share (k other than tag) is on the
\* one global line and k is on no region line; and the pairs of a region
\* line, completed by the global pairs whose key the line lacks, are the
\* translated metadata of that region.
C6_GlobalFactoringInvertible ==
    (out.done /\ out.exc = "none" /\ Len(regions) >= 1)
    => /\ \A k \in DOMAIN Translated(1) \ {"tag"} :
            (\A i \in DOMAIN regions :
                Has(Translated(i), k) /\ Translated(i)[k] = Translated(1)[k])
            => /\ Len(Lines("global")) = 1
               /\ Has(GlobalDict, k)
               /\ GlobalDict[k] = Translated(1)[k]
               /\ \A i \in DOMAIN Lines("region") :
                     k \notin TokenKeys(Lines("region")[i].meta)
       /\ Len(Lines("region")) = Len(regions)
       /\ \A i \in DOMAIN regions :
             Merge(GlobalDict, DictOfTokens(Lines("region")[i].meta))
                = Translated(i)

\* C7: the global line never carries tag, and the line of every region
\* whose metadata carry tags t1..tn has the tokens tag=t1 ... tag=tn.
C7_TagsStayOnRegionLines ==
    (out.done /\ out.exc = "none")
    => /\ \A i \in DOMAIN Lines("global") :
             "tag" \notin TokenKeys(Lines("global")[i].meta)
       /\ Len(Lines("region")) = Len(regions)
       /\ \A i \in DOMAIN regions :
             Has(Translated(i), "tag")
             => TagValues(Lines("region")[i].meta) = Translated(i)["tag"]

\* the non-tag pairs that the translated metadata of all regions share
SharedKeys ==
    IF Len(regions) = 0 THEN {}
    ELSE {k \in DOMAIN Translated(1) \ {"tag"} :
             \A i \in DOMAIN regions :
                 Has(Translated(i), k) /\ Translated(i)[k] = Translated(1)[k]}

\* C8: the document of a list of n >= 0 serializable regions is the header
\* line, then a global line exactly when the regions share a non-tag pair,
\* then n region lines, the i-th with the frame and the shape clause of the
\* i-th region.
C8_DocumentAssembly ==
    (out.done /\ \A i \in DOMAIN regions : SerializeRegionDs9(regions[i]).exc = "none")
    => LET g == IF SharedKeys # {} THEN 1 ELSE 0 IN
       /\ out.exc = "none"
       /\ Len(out.text) = 1 + g + Len(regions)
       /\ out.text[1] = HeaderLine
       /\ g = 1 => out.text[2].kind = "global"
       /\ \A i \in DOMAIN regions :
             /\ out.text[1 + g + i].kind = "region"
             /\ out.text[1 + g + i].frame = SerializeRegionDs9(regions[i]).frame
             /\ out.text[1 + g + i].shape = SerializeRegionDs9(regions[i]).shape

====
